---- MODULE Spec2Model ----
(***************************************************************************)
(* Model of the Comment Template edit component (CommentTemplateEdit,      *)
(* CommentsList, CommentTemplateInnerBlocks, CommentTemplatePreview) and   *)
(* of the useEntityRecord hook.                                            *)
(*                                                                         *)
(* convertToTree is imported from './util', which is not part of the       *)
(* sources at hand; it is modelled from section 4.1 of the specification   *)
(* (index every record, then attach every record, then return the roots).  *)
(***************************************************************************)
EXTENDS Integers, Sequences, FiniteSets, TLC

VARIABLES rawComments, perPage, comments, activeComment, response, result

vars == <<rawComments, perPage, comments, activeComment, response, result>>

rendererVars == <<rawComments, perPage, comments, activeComment>>

hookVars == <<response, result>>

-----------------------------------------------------------------------------
(* Bounds *)

\* comment ids are 1..MaxId; a flat sequence holds at most MaxId records
MaxId == 3

\* the perPage values the block context supplies are 1..MaxPerPage
MaxPerPage == 2

-----------------------------------------------------------------------------
(* Values *)

\* `perPage || 50`: the limit used when the context supplies no perPage
DefaultPerPage == 50

\* the falsy context value of 'comments/perPage' (undefined)
NoPerPage == 0

Ids == 1..MaxId

\* parentId: 0 is the top-level sentinel, MaxId + 1 never names a record
ParentIds == 0..(MaxId + 1)

CommentRecord == [id : Ids, parent : ParentIds]

Min(a, b) == IF a < b THEN a ELSE b

Max(a, b) == IF a < b THEN b ELSE a

\* rawComments before getEntityRecords has an answer (null / undefined)
Absent == [isArray |-> FALSE, items |-> <<>>]

ArrayOf(s) == [isArray |-> TRUE, items |-> s]

UniqueIds(s) == \A i, j \in 1..Len(s) : i # j => s[i].id # s[j].id

\* the flat sequences the input provider can supply: unique ids
FlatSequences ==
    { s \in UNION { [1..n -> CommentRecord] : n \in 0..MaxId } : UniqueIds(s) }

PerPageValues == {NoPerPage} \cup (1..MaxPerPage)

\* useState() with no argument: activeComment is undefined
Unset == [commentId |-> 0, current |-> FALSE]

\* the node object with this commentId in the forest held by `comments`
NodeOf(c) == [commentId |-> c, current |-> TRUE]

\* an empty forest: no roots, no wrappers
EmptyForest == [roots |-> <<>>, children |-> [i \in {} |-> <<>>]]

-----------------------------------------------------------------------------
(* Tree builder *)

IdsOf(data) == { data[k].id : k \in 1..Len(data) }

\* step 1: one wrapper per id, each with an empty children sequence
IndexRecords(data) == [i \in IdsOf(data) |-> <<>>]

\* step 2: in input order, append each wrapper to its parent's children when
\* a wrapper exists for parentId, to the root list otherwise
RECURSIVE AttachRecords(_, _, _)
AttachRecords(data, k, forest) ==
    IF k > Len(data) THEN forest
    ELSE LET item == data[k]
         IN  IF item.parent \in DOMAIN forest.children
             THEN AttachRecords(data, k + 1,
                      [forest EXCEPT !.children[item.parent] = Append(@, item.id)])
             ELSE AttachRecords(data, k + 1,
                      [forest EXCEPT !.roots = Append(@, item.id)])

\* the same, but indexing and attaching in one pass: a record is indexed
\* only when the pass reaches it
RECURSIVE AttachWhileIndexing(_, _, _)
AttachWhileIndexing(data, k, forest) ==
    IF k > Len(data) THEN forest
    ELSE LET item == data[k]
             seen == { data[j].id : j \in 1..k }
         IN  IF item.parent \in seen
             THEN AttachWhileIndexing(data, k + 1,
                      [forest EXCEPT !.children[item.parent] = Append(@, item.id)])
             ELSE AttachWhileIndexing(data, k + 1,
                      [forest EXCEPT !.roots = Append(@, item.id)])

ConvertToTreeSinglePass(raw) ==
    IF ~raw.isArray THEN EmptyForest
    ELSE AttachWhileIndexing(raw.items, 1,
             [roots |-> <<>>, children |-> IndexRecords(raw.items)])

\* step 3: return the root list (the wrappers hang off it)
ConvertToTree(raw) ==
    IF ~raw.isArray THEN EmptyForest
    ELSE AttachRecords(raw.items, 1,
             [roots |-> <<>>, children |-> IndexRecords(raw.items)])

-----------------------------------------------------------------------------
(* Bounded slice *)

\* Array.prototype.slice's relative index
RelativeIndex(i, len) == IF i < 0 THEN Max(len + i, 0) ELSE Min(i, len)

SliceDroppingLast(s, begin, end) ==
    LET from == RelativeIndex(begin, Len(s))
        to == RelativeIndex(end, Len(s)) - 1
    IN  IF to <= from THEN <<>> ELSE SubSeq(s, from + 1, to)

\* Array.prototype.slice( begin, end )
Slice(s, begin, end) ==
    LET from == RelativeIndex(begin, Len(s))
        to == RelativeIndex(end, Len(s))
    IN  IF to <= from THEN <<>> ELSE SubSeq(s, from + 1, to)

\* perPage = perPage || 50
EffectivePerPage(p) == IF p = NoPerPage THEN DefaultPerPage ELSE p

\* useMemo( () => convertToTree( rawComments ).slice( 0, perPage ) )
MemoComments(raw, p) ==
    LET tree == ConvertToTree(raw)
    IN  [tree EXCEPT !.roots = Slice(tree.roots, 0, EffectivePerPage(p))]

-----------------------------------------------------------------------------
(* Renderer *)

RenderTopChecksLengthFirst(raw, forest) ==
    IF Len(forest.roots) = 0 THEN "empty"
    ELSE IF ~raw.isArray THEN "spinner"
    ELSE "list"

\* what CommentTemplateEdit returns: the spinner, 'No results found.' or the
\* comments list
RenderTop(raw, forest) ==
    IF ~raw.isArray THEN "spinner"
    ELSE IF Len(forest.roots) = 0 THEN "empty"
    ELSE "list"

Output == RenderTop(rawComments, comments)

\* comment === ( activeComment || firstComment )
IsActive(c, active, firstComment) ==
    NodeOf(c) = (IF active = Unset THEN NodeOf(firstComment) ELSE active)

\* CommentsList: the <li> of every comment of the list, and below each the
\* CommentsList of its children when it has any. Yields the set of
\* <<commentId, form>> rendered, form being "ACTIVE" or "PREVIEW".
RECURSIVE CommentsList(_, _, _)
CommentsList(list, forest, active) ==
    UNION { LET c == list[k]
                form == IF IsActive(c, active, list[1]) THEN "ACTIVE" ELSE "PREVIEW"
            IN  {<<c, form>>} \cup
                (IF Len(forest.children[c]) > 0
                 THEN CommentsList(forest.children[c], forest, active)
                 ELSE {})
          : k \in 1..Len(list) }

Rendered ==
    IF Output = "list" THEN CommentsList(comments.roots, comments, activeComment)
    ELSE {}

RenderedNodes == { e[1] : e \in Rendered }

ActiveNodes == { e[1] : e \in { x \in Rendered : x[2] = "ACTIVE" } }

PreviewNodes == { e[1] : e \in { x \in Rendered : x[2] = "PREVIEW" } }

\* the node objects of a forest are created by convertToTree: once useMemo
\* recomputes, an object kept from the previous forest is no node of the new
AfterRecompute(active) ==
    IF active = Unset THEN Unset ELSE [active EXCEPT !.current = FALSE]

-----------------------------------------------------------------------------
(* useEntityRecord *)

Undefined == "undefined"

RecordValues == {"record1", "record2"}

\* what getEntityRecord( ... ).data can be
DataValues == {Undefined, "null"} \cup RecordValues

Truthy(d) == d \in RecordValues

QueryResponses ==
    [data : DataValues, isResolving : BOOLEAN, hasResolved : BOOLEAN,
     editedRecord : DataValues, hasEdits : BOOLEAN]

IsMissingIgnoringResolution(r) == ~Truthy(r.data)

\* isMissing: recordResponse.hasResolved && ! recordResponse.data
IsMissing(r) == r.hasResolved /\ ~Truthy(r.data)

StatusResolvedFirst(isResolving, hasResolved, data) ==
    IF hasResolved
    THEN (IF Truthy(data) THEN "SUCCESS" ELSE "ERROR")
    ELSE IF isResolving THEN "RESOLVING"
    ELSE "IDLE"

\* the if / else chain that sets status
Status(isResolving, hasResolved, data) ==
    IF isResolving THEN "RESOLVING"
    ELSE IF hasResolved
    THEN (IF Truthy(data) THEN "SUCCESS" ELSE "ERROR")
    ELSE "IDLE"

UseEntityRecord(r) ==
    [status |-> Status(r.isResolving, r.hasResolved, r.data),
     record |-> r.data,
     editedRecord |-> r.editedRecord,
     hasEdits |-> r.hasEdits,
     isMissing |-> IsMissing(r),
     isResolving |-> r.isResolving,
     hasResolved |-> r.hasResolved]

NoResponse ==
    [data |-> Undefined, isResolving |-> FALSE, hasResolved |-> FALSE,
     editedRecord |-> Undefined, hasEdits |-> FALSE]

-----------------------------------------------------------------------------
(* The comment renderer *)

Init ==
    /\ rawComments = Absent
    /\ perPage \in PerPageValues
    /\ comments = MemoComments(Absent, perPage)
    /\ activeComment = Unset
    /\ response = NoResponse
    /\ result = UseEntityRecord(NoResponse)

\* a re-render after rawComments or perPage changed: useMemo recomputes
Rerender(raw, p) ==
    /\ rawComments' = raw
    /\ perPage' = p
    /\ IF raw # rawComments \/ EffectivePerPage(p) # EffectivePerPage(perPage)
       THEN /\ comments' = MemoComments(raw, p)
            /\ activeComment' = AfterRecompute(activeComment)
       ELSE UNCHANGED <<comments, activeComment>>

\* getEntityRecords resolves: null becomes the array of records
ResolveComments ==
    /\ ~rawComments.isArray
    /\ \E s \in FlatSequences : Rerender(ArrayOf(s), perPage)
    /\ UNCHANGED hookVars

\* the store hands out a new array with one more comment
AppendComment ==
    /\ rawComments.isArray
    /\ \E r \in CommentRecord :
         /\ r.id \notin IdsOf(rawComments.items)
         /\ Rerender(ArrayOf(Append(rawComments.items, r)), perPage)
    /\ UNCHANGED hookVars

\* the store hands out a new array with one comment less
RemoveComment ==
    /\ rawComments.isArray
    /\ \E k \in 1..Len(rawComments.items) :
         Rerender(ArrayOf(SubSeq(rawComments.items, 1, k - 1)
                          \o SubSeq(rawComments.items, k + 1, Len(rawComments.items))),
                  perPage)
    /\ UNCHANGED hookVars

\* the block context supplies another 'comments/perPage'
ChangePerPage ==
    /\ \E p \in PerPageValues \ {perPage} : Rerender(rawComments, p)
    /\ UNCHANGED hookVars

\* handleOnClick (click or key press) on the preview of comment c
Activate(c) ==
    /\ c \in PreviewNodes
    /\ activeComment' = NodeOf(c)
    /\ UNCHANGED <<rawComments, perPage, comments>>
    /\ UNCHANGED hookVars

HandleOnClick == \E c \in Ids : Activate(c)

Next ==
    \/ ResolveComments
    \/ AppendComment
    \/ RemoveComment
    \/ ChangePerPage
    \/ HandleOnClick

Spec == Init /\ [][Next]_vars

\* the component re-rendered as its inputs change, nothing being clicked:
\* what rawComments, perPage and the memoised forest can be
NextInputs ==
    \/ ResolveComments
    \/ AppendComment
    \/ RemoveComment
    \/ ChangePerPage

SpecInputs == Init /\ [][NextInputs]_vars

-----------------------------------------------------------------------------
(* The hook *)

InitHook ==
    /\ rawComments = Absent
    /\ perPage = NoPerPage
    /\ comments = MemoComments(Absent, NoPerPage)
    /\ activeComment = Unset
    /\ response = NoResponse
    /\ result = UseEntityRecord(NoResponse)

\* the store changes and the component renders again: useQuerySelect reads
\* the response, useEntityRecord returns
RenderHook ==
    /\ \E r \in QueryResponses :
         /\ response' = r
         /\ result' = UseEntityRecord(r)
    /\ UNCHANGED rendererVars

NextHook == RenderHook

SpecHook == InitHook /\ [][NextHook]_vars

-----------------------------------------------------------------------------
(* Helpers of the properties *)

Range(s) == { s[k] : k \in 1..Len(s) }

\* a node and everything below it; used from roots only, where the
\* children relation is acyclic
RECURSIVE Subtree(_, _)
Subtree(forest, c) ==
    {c} \cup UNION { Subtree(forest, forest.children[c][k])
                     : k \in 1..Len(forest.children[c]) }

ReachableFromRoots(forest) ==
    UNION { Subtree(forest, forest.roots[k]) : k \in 1..Len(forest.roots) }

\* how many times an id is linked into the forest, as a root or as a child
Occurrences(forest, c) ==
    Cardinality({ k \in 1..Len(forest.roots) : forest.roots[k] = c })
    + Cardinality({ pk \in { <<p, k>> \in (DOMAIN forest.children) \X (1..MaxId + 1)
                              : k <= Len(forest.children[p]) }
                    : forest.children[pk[1]][pk[2]] = c })

\* who is a root and who is whose child, sibling order left aside
ParentRelation(forest) ==
    [roots |-> Range(forest.roots),
     children |-> [i \in DOMAIN forest.children |-> Range(forest.children[i])]]

Reorderings(s) ==
    { [k \in 1..Len(s) |-> s[f[k]]]
      : f \in { g \in [1..Len(s) -> 1..Len(s)] : \A i, j \in 1..Len(s) : i # j => g[i] # g[j] } }

\* every record whose parent is in the sequence comes after that parent
ParentsFirst(s) ==
    \A i \in 1..Len(s) :
        s[i].parent \in IdsOf(s) => \E j \in 1..(i - 1) : s[j].id = s[i].parent

HasForwardReference(s) ==
    \E i, j \in 1..Len(s) : i < j /\ s[i].parent = s[j].id

Statuses == {"IDLE", "RESOLVING", "SUCCESS", "ERROR"}

-----------------------------------------------------------------------------
(* Properties of the comment renderer *)

\* C1: whenever the list is rendered, exactly one node of the whole forest,
\* nested children included, is in ACTIVE form and every other is a PREVIEW.
ExactlyOneActive ==
    Output = "list" =>
        /\ Cardinality(ActiveNodes) = 1
        /\ PreviewNodes = RenderedNodes \ ActiveNodes

\* C2: when A is ACTIVE and activation is triggered on the preview of another
\* node B, then B becomes ACTIVE, A becomes a PREVIEW and no other node
\* changes form; and the selection pointer changes in activation steps only.
ActivationSwitchesOnlyAB ==
    [][ /\ \A a, b \in Ids :
             (a # b /\ a \in ActiveNodes /\ Activate(b))
                 => /\ b \in ActiveNodes'
                    /\ a \in PreviewNodes'
                    /\ \A n \in RenderedNodes \ {a, b} :
                           (n \in ActiveNodes) <=> (n \in ActiveNodes')
        /\ activeComment'.commentId # activeComment.commentId
             => \E c \in Ids : Activate(c)
      ]_vars

\* C3: with activeComment unset and a non-empty forest, the effective active
\* node is the first root: it is the node rendered ACTIVE by the default rule.
DefaultSelectsFirstRoot ==
    (Output = "list" /\ activeComment = Unset) =>
        ActiveNodes = {comments.roots[1]}

EveryRecordReachableOnce ==
    rawComments.isArray =>
        LET s == rawComments.items
            tree == ConvertToTree(rawComments)
        IN  /\ ReachableFromRoots(tree) = IdsOf(s)
            /\ \A c \in IdsOf(s) : Occurrences(tree, c) = 1
            /\ \A k \in 1..Len(s) :
                 s[k].parent \notin IdsOf(s) => s[k].id \in Range(tree.roots)

\* C6: a record whose parentId is its own id is a root of the forest and
\* not a child of itself.
SelfReferenceIsRoot ==
    rawComments.isArray =>
        LET s == rawComments.items
            tree == ConvertToTree(rawComments)
        IN  \A k \in 1..Len(s) :
                s[k].parent = s[k].id
                    => /\ s[k].id \in Range(tree.roots)
                       /\ s[k].id \notin Range(tree.children[s[k].id])

\* C7: a record that comes before the record it names as parent is a child
\* of that parent and no root, and the forest has the parent/child relation
\* of every reordering of the same records that puts parents first.
ForwardReferenceResolved ==
    rawComments.isArray =>
        LET s == rawComments.items
            tree == ConvertToTree(rawComments)
        IN  /\ \A i, j \in 1..Len(s) :
                 (i < j /\ s[i].parent = s[j].id)
                     => /\ s[i].id \in Range(tree.children[s[j].id])
                        /\ s[i].id \notin Range(tree.roots)
            /\ \A q \in Reorderings(s) :
                 ParentsFirst(q)
                     => ParentRelation(ConvertToTree(ArrayOf(q))) = ParentRelation(tree)

ForwardReferenceWitness ==
    /\ rawComments.isArray
    /\ HasForwardReference(rawComments.items)
    /\ \E q \in Reorderings(rawComments.items) : ParentsFirst(q)
    /\ Output = "list"

\* C9 (as claimed): an empty or an absent flat sequence yields the empty
\* result 'No results found'.
EmptyOrAbsentShowsNoResults ==
    (~rawComments.isArray \/ rawComments.items = <<>>) => Output = "empty"

\* C9 (amended): an empty flat sequence yields 'No results found', an absent
\* one yields the spinner; the list is rendered exactly when the capped
\* forest is non-empty; exactly one of the three outputs is produced.
OutputByInput ==
    /\ Output \in {"spinner", "empty", "list"}
    /\ (Output = "spinner") <=> ~rawComments.isArray
    /\ (rawComments.isArray /\ rawComments.items = <<>>) => Output = "empty"
    /\ (Output = "list") <=> (rawComments.isArray /\ Len(comments.roots) > 0)
    /\ (Output = "list") <=> (Rendered # {})
    /\ (Output = "empty") <=> (rawComments.isArray /\ Len(comments.roots) = 0)

EmptyResultWitness ==
    /\ rawComments.isArray
    /\ rawComments.items = <<>>
    /\ Output = "empty"

-----------------------------------------------------------------------------
(* Properties of useEntityRecord *)

\* C8: status is RESOLVING when isResolving, else SUCCESS when hasResolved
\* with data, else ERROR when hasResolved without data, else IDLE; record,
\* isResolving and hasResolved are returned as read.
StatusOfFlags ==
    LET present == response.data \in RecordValues
    IN  /\ result.status \in Statuses
        /\ response.isResolving => result.status = "RESOLVING"
        /\ (~response.isResolving /\ response.hasResolved /\ present)
             => result.status = "SUCCESS"
        /\ (~response.isResolving /\ response.hasResolved /\ ~present)
             => result.status = "ERROR"
        /\ (~response.isResolving /\ ~response.hasResolved)
             => result.status = "IDLE"
        /\ result.record = response.data
        /\ result.isResolving = response.isResolving
        /\ result.hasResolved = response.hasResolved

StatusWitness ==
    /\ response.isResolving
    /\ response.hasResolved
    /\ response.data \in RecordValues
    /\ result.status = "RESOLVING"

\* C10: isMissing is true exactly when hasResolved is true and data is
\* absent; status ERROR implies isMissing; isMissing implies status ERROR or
\* RESOLVING.
MissingConsistentWithStatus ==
    /\ result.isMissing <=> (response.hasResolved /\ response.data \notin RecordValues)
    /\ result.status = "ERROR" => result.isMissing
    /\ result.isMissing => result.status \in {"ERROR", "RESOLVING"}

MissingWitness ==
    /\ result.isMissing
    /\ response.isResolving
    /\ result.status = "RESOLVING"

====
